---- MODULE Spec2Model ----
(***************************************************************************)
(* Model of packages/api-derive/src/convert/convert.ts: the derive layer   *)
(* that turns the chain's conversion-pool storage reads into pool, price   *)
(* and annualized-rate streams.                                            *)
(*                                                                         *)
(* Values.  A BN is the pair (hi, lo) standing for hi * 2^53 + lo: hi = 0  *)
(* is the range BN.toNumber can return, hi > 0 a value that needs more     *)
(* than 53 bits.  A JS number that the rate arithmetic produces is an      *)
(* exact fraction num/den, or NaN, or an infinity (rounding of doubles is  *)
(* not modelled).  A price is what getConvertPriceInfo's map returns: the  *)
(* number literal 0, or a BN object.                                       *)
(***************************************************************************)
EXTENDS Integers, Sequences, FiniteSets, TLC

\* ------------------------------------------------------------------ bounds
MaxAmount == 3
MaxReward == 1
MaxResolved == 2
MaxCurrent == 2
MaxList == 2
MaxDeliveries == 3
MaxHashLists == 2
MaxHashList == 2
MaxWrappers == 2
MaxCalls == 3
MaxStreamId == 6

\* ------------------------------------------------------- program constants
DaysPerWeek == 7
DaysPerYear == 365

None == [kind |-> "none"]

Hashes == {"h1", "h2"}

Tokens == {"vDOT", "vKSM"}

\* the default universe of tokens, in its fixed order
bifrostVtokenList == <<"vDOT", "vKSM">>

\* sequences over S of length at most n
SeqsUpTo(S, n) == UNION {[1..k -> S] : k \in 0..n}

\* --------------------------------------------------------------- BN values
BNValues == [hi : {0, 1}, lo : 0..MaxAmount]
RewardValues == [hi : {0}, lo : 0..MaxReward]

\* new BN(x) for x a BN (the chain's balance type): a BN of the same value.
BNfromBN(x) == [hi |-> x.hi, lo |-> x.lo]

\* new BN(n) for n a native number.
BNfromNumber(n) == [hi |-> 0, lo |-> n]

\* x.toNumber(): the value when it fits 53 bits; otherwise bn.js asserts.
Thrown == [kind |-> "thrown", n |-> 0]

toNumber(x) == IF x.hi = 0 THEN [kind |-> "ok", n |-> x.lo] ELSE Thrown

\* Variant for comparison: a.divRound(b), the quotient rounded to the
\* nearest integer
BNdivRound(a, b) == [hi |-> 0, lo |-> (2 * a.lo + b.lo) \div (2 * b.lo)]

\* a.div(b) on BN: the integer quotient, remainder discarded (b # 0).
BNdiv(a, b) == [hi |-> 0, lo |-> a.lo \div b.lo]

\* the decimal digits of a non-negative integer, most significant first
RECURSIVE Digits(_)
Digits(n) == IF n < 10 THEN <<n>> ELSE Append(Digits(n \div 10), n % 10)

\* BN.prototype.toString(): base 10
BNtoString(x) == Digits(x.lo)

\* Number(s) for a string of decimal digits
RECURSIVE NumberOfString(_)
NumberOfString(s) ==
    IF Len(s) = 0 THEN 0
    ELSE 10 * NumberOfString(SubSeq(s, 1, Len(s) - 1)) + s[Len(s)]

\* ------------------------------------------------------------ pool records
\* The raw record the chain's convert.pool storage returns.
RawPools ==
    [current_reward : RewardValues, pending_reward : RewardValues,
     token_pool : BNValues, vtoken_pool : BNValues]

\* The raw records of the price and rate pipelines (rewards play no part).
PriceRawPools ==
    {r \in RawPools : r.current_reward.lo = 0 /\ r.pending_reward.lo = 0}

\* The raw records the batch derivations are fed with.
BatchRawPools ==
    {r \in PriceRawPools :
        r.token_pool.lo \in {0, MaxAmount} /\ r.vtoken_pool.lo \in {0, 1}}

\* The raw records a block's state is drawn from.
HistoryRawPools ==
    {r \in BatchRawPools : r.vtoken_pool.hi = 0 /\ r.vtoken_pool.lo = 1}

\* getPoolInfo's map: the four fields, each through new BN(...)
poolOfRaw(res) ==
    [current_reward |-> BNfromBN(res.current_reward),
     pending_reward |-> BNfromBN(res.pending_reward),
     token_pool     |-> BNfromBN(res.token_pool),
     vtoken_pool    |-> BNfromBN(res.vtoken_pool)]

\* ------------------------------------------------------------------ prices
NumberPrice(n) == [tag |-> "number", n |-> n]
BNPrice(x) == [tag |-> "BN", n |-> x.lo]

\* The outcome of one run of getConvertPriceInfo's map callback:
\*   kind "next" with the price returned, or kind "error" when it threw;
\*   divided tells whether tokenPool.div(vtokenPool) was executed.
PriceThrown == [kind |-> "error", price |-> NumberPrice(0), divided |-> FALSE]

convertPriceDivide(tokenPool, vtokenPool) ==
    [kind |-> "next", price |-> BNPrice(BNdiv(tokenPool, vtokenPool)),
     divided |-> TRUE]

convertPriceZero == [kind |-> "next", price |-> NumberPrice(0), divided |-> FALSE]

convertPrice(result) ==
    LET t == toNumber(result.token_pool) IN
    IF t.kind = "thrown" THEN PriceThrown
    ELSE LET tokenPool == BNfromNumber(t.n)
             v == toNumber(result.vtoken_pool) IN
         IF v.kind = "thrown" THEN PriceThrown
         ELSE IF v.n # 0
              THEN convertPriceDivide(tokenPool, BNfromNumber(v.n))
              ELSE convertPriceZero

\* ------------------------------------------------------------- JS numbers
Finite(n, d) == [kind |-> "finite", num |-> n, den |-> d]
NaN == [kind |-> "NaN", num |-> 0, den |-> 1]
Infinity(sign) == [kind |-> "Infinity", num |-> sign, den |-> 1]

Abs(n) == IF n < 0 THEN -n ELSE n
Sign(n) == IF n < 0 THEN -1 ELSE IF n > 0 THEN 1 ELSE 0

RECURSIVE GCD(_, _)
GCD(a, b) == IF b = 0 THEN a ELSE GCD(b, a % b)

\* the fraction n/d (d # 0) in lowest terms with a positive denominator
Fraction(n, d) ==
    LET s == IF d < 0 THEN -1 ELSE 1
        g == GCD(Abs(n), Abs(d))
    IN  Finite((s * n) \div g, (s * d) \div g)

\* ToNumber of a price operand of - and /: a number is itself; a BN object
\* has no valueOf of its own and is converted through its decimal string.
ToNumber(p) ==
    IF p.tag = "number" THEN Finite(p.n, 1)
    ELSE Finite(NumberOfString(BNtoString(BNfromNumber(p.n))), 1)

\* a - b on finite numbers
NumSub(a, b) == Fraction(a.num * b.den - b.num * a.den, a.den * b.den)

\* a / b on JS numbers, b finite and not negative
NumDiv(a, b) ==
    IF a.kind = "NaN" THEN NaN
    ELSE IF b.num = 0
         THEN IF a.kind = "finite" /\ a.num = 0 THEN NaN
              ELSE Infinity(Sign(a.num))
         ELSE IF a.kind = "Infinity" THEN a
              ELSE Fraction(a.num * b.den, a.den * b.num)

\* a * b on JS numbers, b finite and positive
NumMul(a, b) ==
    IF a.kind = "NaN" THEN NaN
    ELSE IF a.kind = "Infinity" THEN a
         ELSE Fraction(a.num * b.num, a.den * b.den)

\* historicalPrice !== 0: strict inequality with the number 0; an object
\* is never strictly equal to a number.
StrictlyNotZero(p) == ~(p.tag = "number" /\ p.n = 0)

\* Variant for comparison: the week and the year exchanged
rateFormulaWeekYearSwapped(currentPrice, historicalPrice) ==
    NumMul(NumDiv(NumDiv(NumSub(ToNumber(currentPrice), ToNumber(historicalPrice)),
                         ToNumber(historicalPrice)),
                  Finite(DaysPerYear, 1)),
           Finite(DaysPerWeek, 1))

\* (currentPrice - historicalPrice) / (historicalPrice) / 7 * 365
rateFormula(currentPrice, historicalPrice) ==
    NumMul(NumDiv(NumDiv(NumSub(ToNumber(currentPrice), ToNumber(historicalPrice)),
                         ToNumber(historicalPrice)),
                  Finite(DaysPerWeek, 1)),
           Finite(DaysPerYear, 1))

\* getAnnualizedRate's map over [currentPrice, historicalPrice]
annualizedRate(currentPrice, historicalPrice) ==
    IF StrictlyNotZero(historicalPrice)
    THEN rateFormula(currentPrice, historicalPrice)
    ELSE Finite(0, 1)

\* ------------------------------------------------------------ rx operators
\* combineLatest's inner observer: the value v arrives on input i of a
\* combineLatest whose latest values are `values` (None: nothing yet).
\* The values array is updated; a combined value is emitted once every
\* input has delivered.
\* Variant for comparison: the test for "every input has delivered" made
\* before the arriving value is stored
combineLatestNextStaleTest(values, i, v) ==
    LET vs == [values EXCEPT ![i] = v] IN
    [values |-> vs, emits |-> \A k \in DOMAIN values : values[k] # None]

combineLatestNext(values, i, v) ==
    LET vs == [values EXCEPT ![i] = v] IN
    [values |-> vs, emits |-> \A k \in DOMAIN vs : vs[k] # None]

\* A shared stream delivers v to its subscribers one after the other: v
\* arrives on each input of `inputs` (a sequence of input numbers) in turn.
\* emitted: the combined values emitted on the way, in order.
RECURSIVE deliverEach(_, _, _)
deliverEach(values, inputs, v) ==
    IF Len(inputs) = 0 THEN [values |-> values, emitted |-> <<>>]
    ELSE LET c == combineLatestNext(values, Head(inputs), v)
             rest == deliverEach(c.values, Tail(inputs), v)
         IN  [values |-> rest.values,
              emitted |-> (IF c.emits THEN <<c.values>> ELSE <<>>) \o rest.emitted]

\* the members of a finite set of integers, ascending
RECURSIVE Ascending(_)
Ascending(S) ==
    IF S = {} THEN <<>>
    ELSE LET m == CHOOSE x \in S : \A y \in S : x <= y
         IN  <<m>> \o Ascending(S \ {m})

\* An error notification passes through map, mergeMap and combineLatest to
\* the stream they produce.  E: the pairs <<input, output>> of a
\* derivation's operators; the streams an error entering at S reaches:
RECURSIVE Reach(_, _)
Reach(E, S) ==
    LET T == S \cup {e[2] : e \in {d \in E : d[1] \in S}}
    IN  IF T = S THEN S ELSE Reach(E, T)

\* The statuses after an error has reached the streams `hit`: if it
\* reached the subscriber's stream `top`, the subscription and with it
\* every stream still active is torn down.
failStat(stat, hit, top) ==
    [n \in DOMAIN stat |->
        IF n \in hit THEN "error"
        ELSE IF top \in hit /\ stat[n] = "active" THEN "closed"
        ELSE stat[n]]

\* ---------------------------------------------------------------- state
VARIABLES
    derived,    \* the derived function the subscriber is attached to
    \* -- getAnnualizedRate(tokenSymbol) --
    rStat,      \* status of each stream of the derivation
    rErr,       \* the error notification delivered to the subscriber
    latest,     \* combineLatest's values: <<currentPrice, historicalPrice>>
    histOpen,   \* hashes of the mergeMap's open inner subscriptions
    resolved,   \* hashes the block-hash resolver has emitted
    curCount,   \* pool states the live query has delivered
    lastMap,    \* the last run of getConvertPriceInfo's map callback
    rateOut,    \* the last value emitted to the subscriber, and its inputs
    rateCount,  \* values emitted to the subscriber
    queries,    \* chain queries issued (api.query.convert.pool[.at])
    \* -- getAllVtokenConvertInfo, getAllConvertPriceInfo, getAllAnnualizedRate --
    bArg,       \* the vTokenArray argument (defined or not)
    bSubs,      \* the tokens of the streams handed to combineLatest, in order
    bValues,    \* combineLatest's values, one per position
    bStat,      \* status of each position's stream and of the batch stream
    bErr,       \* the error notification delivered to the subscriber
    bOut,       \* the last list emitted to the subscriber
    bCount,     \* lists emitted to the subscriber
    bDelivered, \* values the positions' streams have delivered
    \* -- getBatchConvertPrice(tokenSymbol, blockHashArray) --
    chainAt,    \* the pool record of the token at each block hash
    hlLists,    \* the hash lists blockHashArray has emitted
    hlInner,    \* per emitted list, its combineLatest: values and open positions
    hlStat,     \* status of the derived stream
    hlErr,      \* the error notification delivered to the subscriber
    hlOut,      \* the price lists emitted to the subscriber, in order
    \* -- the memoized functions of one API instance and their live streams --
    mWrappers,  \* the wrapped functions memo has returned, in creation order
    mStreams,   \* the live streams the wrapped functions have created
    mHandles,   \* the streams consumers are subscribed to
    mNextS,     \* the next stream identity
    mCalls,     \* calls consumers have made
    \* -- one run of getPoolInfo's inner function --
    pArg,       \* its arguments (tokenSymbol, preBlockHash)
    pIssued,    \* the chain queries it has issued, in order
    pStat,      \* status of the stream it returned
    pRaw,       \* the last raw record the chain query delivered
    pOut,       \* the last pool state emitted to the subscriber
    pCount      \* pool states emitted to the subscriber

rateVars ==
    <<rStat, rErr, latest, histOpen, resolved, curCount, lastMap, rateOut,
      rateCount, queries>>

batchVars == <<bArg, bSubs, bValues, bStat, bErr, bOut, bCount, bDelivered>>

hashListVars == <<chainAt, hlLists, hlInner, hlStat, hlErr, hlOut>>

memoVars == <<mWrappers, mStreams, mHandles, mNextS, mCalls>>

poolVars == <<pArg, pIssued, pStat, pRaw, pOut, pCount>>

vars == <<derived, rateVars, batchVars, hashListVars, memoVars, poolVars>>

notRate == <<derived, batchVars, hashListVars, memoVars, poolVars>>
notBatch == <<derived, rateVars, hashListVars, memoVars, poolVars>>
notHashList == <<derived, rateVars, batchVars, memoVars, poolVars>>
notMemo == <<derived, rateVars, batchVars, hashListVars, poolVars>>
notPool == <<derived, rateVars, batchVars, hashListVars, memoVars>>

\* --------------------------------------------- getAnnualizedRate(token)
\* The streams of the derivation: the live chain query, the pool and price
\* streams built on it, the block-pinned chain queries with their pool and
\* price streams, the resolver, historicalPrice$ and the rate stream.
RateStreams ==
    {"query", "pool", "price", "lookupQuery", "lookupPool", "lookupPrice",
     "resolver", "hist", "rate"}

\* Variant for comparison: historicalPrice$ swallows the errors of its lookups
RateEdgesHistCaught ==
    {<<"query", "pool">>, <<"pool", "price">>, <<"price", "rate">>,
     <<"lookupQuery", "lookupPool">>, <<"lookupPool", "lookupPrice">>,
     <<"resolver", "hist">>, <<"hist", "rate">>}

\* result.pipe(map), convertPoolQuery(...).pipe(map),
\* preBlockHashQuery().pipe(mergeMap), combineLatest([...]).pipe(map)
RateEdges ==
    {<<"query", "pool">>, <<"pool", "price">>, <<"price", "rate">>,
     <<"lookupQuery", "lookupPool">>, <<"lookupPool", "lookupPrice">>,
     <<"lookupPrice", "hist">>, <<"resolver", "hist">>, <<"hist", "rate">>}

\* Subscribing: currentPrice$ issues the live pool query; the resolver is
\* subscribed; nothing has been delivered.
RateSubscribed ==
    /\ rStat = [n \in RateStreams |-> "active"]
    /\ rErr = None
    /\ latest = <<None, None>>
    /\ histOpen = <<>>
    /\ resolved = <<>>
    /\ curCount = 0
    /\ lastMap = None
    /\ rateOut = None
    /\ rateCount = 0
    /\ queries = 1

\* The derivation is not subscribed.
RateIdle ==
    /\ rStat = [n \in RateStreams |-> "idle"]
    /\ rErr = None
    /\ latest = <<None, None>>
    /\ histOpen = <<>>
    /\ resolved = <<>>
    /\ curCount = 0
    /\ lastMap = None
    /\ rateOut = None
    /\ rateCount = 0
    /\ queries = 0

BatchIdle ==
    /\ bArg = [defined |-> FALSE, list |-> <<>>]
    /\ bSubs = <<>>
    /\ bValues = <<>>
    /\ bStat = [query |-> <<>>, elem |-> <<>>, batch |-> "idle"]
    /\ bErr = None
    /\ bOut = None
    /\ bCount = 0
    /\ bDelivered = [last |-> <<>>, count |-> 0]

\* The streams of getBatchConvertPrice: the block-pinned chain queries with their
\* pool and price streams, the inner combineLatests, and the derived stream.
HashListStreams == {"lookupQuery", "lookupPool", "lookupPrice", "inner", "out"}

HashListIdle ==
    /\ chainAt = [h \in Hashes |-> None]
    /\ hlLists = <<>>
    /\ hlInner = <<>>
    /\ hlStat = [n \in HashListStreams |-> "idle"]
    /\ hlErr = None
    /\ hlOut = <<>>

PoolIdle ==
    /\ pArg = None
    /\ pIssued = <<>>
    /\ pStat = "idle"
    /\ pRaw = None
    /\ pOut = None
    /\ pCount = 0

MemoIdle ==
    /\ mWrappers = <<>>
    /\ mStreams = {}
    /\ mHandles = <<>>
    /\ mNextS = 1
    /\ mCalls = 0

InitRate ==
    /\ derived = "getAnnualizedRate"
    /\ RateSubscribed
    /\ BatchIdle /\ HashListIdle /\ MemoIdle /\ PoolIdle

\* The stream `src` of the derivation fails (h: the hash of the lookup it
\* belongs to, if any).  The error reaches the streams built on src; once
\* it has reached the rate stream the subscriber has it and the derivation
\* is torn down.
RateFails(src, h) ==
    LET hit == Reach(RateEdges, {src}) IN
    /\ rStat' = failStat(rStat, hit, "rate")
    /\ rErr' = IF "rate" \in hit THEN [kind |-> "error", src |-> src] ELSE rErr
    /\ histOpen' = IF "rate" \in hit THEN <<>>
                   ELSE SelectSeq(histOpen, LAMBDA x : x # h)
    /\ UNCHANGED <<notRate, latest, resolved, rateOut, rateCount, queries>>

\* Variant for comparison: currentPrice$.pipe(withLatestFrom(
\* historicalPrice$)), where only the current price's deliveries emit
RateWithLatestFrom(inputs, p) ==
    LET d == deliverEach(latest, inputs, p)
        n == IF Head(inputs) = 1 THEN Len(d.emitted) ELSE 0 IN
    /\ latest' = d.values
    /\ IF n > 0
       THEN /\ rateOut' = [kind |-> "rate",
                           rate |-> annualizedRate(d.emitted[n][1], d.emitted[n][2]),
                           cur |-> d.emitted[n][1], hist |-> d.emitted[n][2]]
            /\ rateCount' = rateCount + n
       ELSE UNCHANGED <<rateOut, rateCount>>
    /\ UNCHANGED <<notRate, rStat, rErr, resolved, queries>>

\* The price `p` arrives on the inputs `inputs` of the combineLatest (1:
\* current, 2: historical, once per inner subscription that delivers it);
\* the map callback turns each combined pair into a rate.
RateCombine(inputs, p) ==
    LET d == deliverEach(latest, inputs, p)
        n == Len(d.emitted) IN
    /\ latest' = d.values
    /\ IF n > 0
       THEN /\ rateOut' = [kind |-> "rate",
                           rate |-> annualizedRate(d.emitted[n][1], d.emitted[n][2]),
                           cur |-> d.emitted[n][1], hist |-> d.emitted[n][2]]
            /\ rateCount' = rateCount + n
       ELSE UNCHANGED <<rateOut, rateCount>>
    /\ UNCHANGED <<notRate, rStat, rErr, resolved, queries>>

\* The live pool query delivers a raw record.
CurrentPoolNext(raw) ==
    /\ derived = "getAnnualizedRate"
    /\ rStat.query = "active"
    /\ curCount < MaxCurrent
    /\ curCount' = curCount + 1
    /\ LET conv == convertPrice(poolOfRaw(raw)) IN
       /\ lastMap' = [kind |-> "map", pool |-> poolOfRaw(raw), out |-> conv]
       /\ IF conv.kind = "error"
          THEN RateFails("price", "-")
          ELSE RateCombine(<<1>>, conv.price) /\ UNCHANGED histOpen

\* the inner subscriptions of the mergeMap that are on the lookup of hash h
LookupsOf(h) == {i \in DOMAIN histOpen : histOpen[i] = h}

\* Variant for comparison: switchMap, which unsubscribes from the earlier
\* inner stream when the next hash arrives
switchMapInner(open, h) == <<h>>

\* mergeMap's inner subscriptions after its callback's stream for the hash
\* h has been subscribed to: the earlier ones and the new one.
mergeMapInner(open, h) == Append(open, h)

\* The resolver emits a block hash: mergeMap calls convertPriceQuery(token,
\* preHash) and subscribes to it, keeping the earlier inner subscriptions.
\* A lookup of the same hash that is still open is the same memoized
\* stream: no second query is issued for it.
ResolverNext(h) ==
    /\ derived = "getAnnualizedRate"
    /\ rStat.resolver = "active"
    /\ Len(resolved) < MaxResolved
    /\ resolved' = Append(resolved, h)
    /\ histOpen' = mergeMapInner(histOpen, h)
    /\ queries' = IF LookupsOf(h) = {} THEN queries + 1 ELSE queries
    /\ UNCHANGED <<notRate, rStat, rErr, latest, curCount, lastMap, rateOut,
                   rateCount>>

\* The block-pinned query of hash h delivers its record and completes; the
\* price reaches every inner subscription that is on that lookup.
HistoricalPoolNext(h, raw) ==
    /\ derived = "getAnnualizedRate"
    /\ rStat.lookupQuery = "active"
    /\ LookupsOf(h) # {}
    /\ UNCHANGED curCount
    /\ LET conv == convertPrice(poolOfRaw(raw)) IN
       /\ lastMap' = [kind |-> "map", pool |-> poolOfRaw(raw), out |-> conv]
       /\ IF conv.kind = "error"
          THEN RateFails("lookupPrice", h)
          ELSE /\ RateCombine([i \in 1..Cardinality(LookupsOf(h)) |-> 2], conv.price)
               /\ histOpen' = SelectSeq(histOpen, LAMBDA x : x # h)

\* The live pool query fails.
CurrentQueryError ==
    /\ derived = "getAnnualizedRate"
    /\ rStat.query = "active"
    /\ RateFails("query", "-")
    /\ UNCHANGED <<curCount, lastMap>>

\* The block-pinned query of hash h fails.
HistoricalQueryError(h) ==
    /\ derived = "getAnnualizedRate"
    /\ rStat.lookupQuery = "active"
    /\ LookupsOf(h) # {}
    /\ RateFails("lookupQuery", h)
    /\ UNCHANGED <<curCount, lastMap>>

\* ----- getAllVtokenConvertInfo, getAllConvertPriceInfo, getAllAnnualizedRate
BatchFns ==
    {"getAllVtokenConvertInfo", "getAllConvertPriceInfo", "getAllAnnualizedRate"}

\* the optional vTokenArray argument
BatchArgs ==
    {[defined |-> FALSE, list |-> <<>>]}
        \cup {[defined |-> TRUE, list |-> l] : l \in SeqsUpTo(Tokens, MaxList)}

\* Variant for comparison: the list taken back to front
vTokenListReversed(vTokenArray) ==
    LET l == IF ~vTokenArray.defined THEN bifrostVtokenList ELSE vTokenArray.list
    IN  [i \in 1..Len(l) |-> l[Len(l) + 1 - i]]

\* vTokenList: the default universe when the argument is undefined
vTokenList(vTokenArray) ==
    IF ~vTokenArray.defined THEN bifrostVtokenList ELSE vTokenArray.list

\* vTokenList.map((vtk) => query(vtk)): the i-th stream is the query of the
\* i-th token
batchStreams(vTokenArray) ==
    LET l == vTokenList(vTokenArray) IN [i \in 1..Len(l) |-> l[i]]

Prices == {NumberPrice(0)} \cup {BNPrice(BNfromNumber(n)) : n \in 0..MaxAmount}

\* What the singular stream of one position can deliver next: a value
\* (kind "next") or, when its map callback throws, an error.
ElementOutcomes(fn) ==
    IF fn = "getAllVtokenConvertInfo"
    THEN {[kind |-> "next", value |-> poolOfRaw(raw)] : raw \in BatchRawPools}
    ELSE IF fn = "getAllConvertPriceInfo"
    THEN {[kind |-> convertPrice(poolOfRaw(raw)).kind,
           value |-> convertPrice(poolOfRaw(raw)).price] : raw \in BatchRawPools}
    ELSE {[kind |-> convertPrice(poolOfRaw(raw)).kind,
           value |-> annualizedRate(convertPrice(poolOfRaw(raw)).price, h)] :
             raw \in BatchRawPools, h \in Prices}

\* Subscribing to the batch stream: combineLatest subscribes to every
\* position's stream; over no stream at all it completes at once.
BatchSubscribed(arg) ==
    LET subs == batchStreams(arg) IN
    /\ bArg = arg
    /\ bSubs = subs
    /\ bValues = [i \in DOMAIN subs |-> None]
    /\ bStat = [query |-> [i \in DOMAIN subs |-> "active"],
                elem |-> [i \in DOMAIN subs |-> "active"],
                batch |-> IF Len(subs) = 0 THEN "complete" ELSE "active"]
    /\ bErr = None
    /\ bOut = None
    /\ bCount = 0
    /\ bDelivered = [last |-> [i \in DOMAIN subs |-> None], count |-> 0]

InitBatch ==
    /\ derived \in BatchFns
    /\ \E arg \in BatchArgs : BatchSubscribed(arg)
    /\ RateIdle /\ HashListIdle /\ MemoIdle /\ PoolIdle

\* per position: the chain query, the singular stream built on it, and
\* combineLatest(vTokenList.map(...))
BatchEdges == {<<"query", "elem">>, <<"elem", "batch">>}

\* The stream `src` of position i fails: the error reaches the streams
\* built on it; once it has reached the batch stream the subscriber has it
\* and combineLatest unsubscribes from the other positions.
BatchFails(i, src) ==
    LET hit == Reach(BatchEdges, {src})
        one(n) == [query |-> bStat.query[n], elem |-> bStat.elem[n],
                   batch |-> bStat.batch]
        after(n) == failStat(one(n), IF n = i THEN hit ELSE hit \cap {"batch"},
                             "batch") IN
    /\ bStat' = [query |-> [n \in DOMAIN bSubs |-> after(n).query],
                 elem |-> [n \in DOMAIN bSubs |-> after(n).elem],
                 batch |-> after(i).batch]
    /\ bErr' = IF "batch" \in hit
               THEN [kind |-> "error", src |-> src, position |-> i]
               ELSE bErr
    /\ UNCHANGED <<bArg, bSubs, bValues, bOut, bCount, bDelivered>>

\* The stream of position i delivers the outcome e.
ElementDelivers(i, e) ==
    /\ derived \in BatchFns
    /\ bStat.batch = "active"
    /\ i \in DOMAIN bSubs
    /\ bStat.elem[i] = "active"
    /\ bDelivered.count < MaxDeliveries
    /\ e \in ElementOutcomes(derived)
    /\ IF e.kind = "error"
       THEN BatchFails(i, "elem")
       ELSE LET v == [token |-> bSubs[i], value |-> e.value]
                c == combineLatestNext(bValues, i, v) IN
            /\ bValues' = c.values
            /\ bDelivered' = [last |-> [bDelivered.last EXCEPT ![i] = v],
                              count |-> bDelivered.count + 1]
            /\ IF c.emits
               THEN bOut' = [kind |-> "list", list |-> c.values]
                    /\ bCount' = bCount + 1
               ELSE UNCHANGED <<bOut, bCount>>
            /\ UNCHANGED <<bArg, bSubs, bStat, bErr>>
    /\ UNCHANGED notBatch

\* The chain query under position i fails.
ElementQueryError(i) ==
    /\ derived \in BatchFns
    /\ bStat.batch = "active"
    /\ i \in DOMAIN bSubs
    /\ bStat.elem[i] = "active"
    /\ BatchFails(i, "query")
    /\ UNCHANGED notBatch

NextBatch ==
    \/ \E i \in DOMAIN bSubs : \E e \in ElementOutcomes(derived) :
          ElementDelivers(i, e)
    \/ \E i \in DOMAIN bSubs : ElementQueryError(i)

SpecBatch == InitBatch /\ [][NextBatch]_vars


\* ----------------------- getBatchConvertPrice(tokenSymbol, blockHashArray)
\* result.pipe(map), convertPoolQuery(...).pipe(map), combineLatest(...),
\* blockHashArray.pipe(mergeMap(...))
HashListEdges ==
    {<<"lookupQuery", "lookupPool">>, <<"lookupPool", "lookupPrice">>,
     <<"lookupPrice", "inner">>, <<"inner", "out">>}

\* Subscribing: blockHashArray is subscribed; it has emitted nothing.  The
\* state of the token's pool at each block is fixed once and for all.
InitHashList ==
    /\ derived = "getBatchConvertPrice"
    /\ chainAt \in [Hashes -> HistoryRawPools]
    /\ hlLists = <<>>
    /\ hlInner = <<>>
    /\ hlStat = [n \in HashListStreams |-> "active"]
    /\ hlErr = None
    /\ hlOut = <<>>
    /\ RateIdle /\ BatchIdle /\ MemoIdle /\ PoolIdle

\* blockHashArray emits a list: mergeMap subscribes to the combineLatest of
\* the list's price streams, keeping the earlier inner subscriptions.
HashListNext(blockHashList) ==
    /\ derived = "getBatchConvertPrice"
    /\ hlStat.out = "active"
    /\ Len(hlLists) < MaxHashLists
    /\ hlLists' = Append(hlLists, blockHashList)
    /\ hlInner' = Append(hlInner,
                         [values |-> [i \in DOMAIN blockHashList |-> None],
                          open |-> DOMAIN blockHashList])
    /\ UNCHANGED <<notHashList, chainAt, hlStat, hlErr, hlOut>>

\* The stream `src` of the lookup of hash h fails: the error reaches the
\* streams built on it; once it has reached the derived stream the
\* subscriber has it and every inner subscription is torn down.
HashListFails(src, h) ==
    LET hit == Reach(HashListEdges, {src}) IN
    /\ hlStat' = failStat(hlStat, hit, "out")
    /\ hlErr' = IF "out" \in hit THEN [kind |-> "error", src |-> src, hash |-> h]
                ELSE hlErr
    /\ hlInner' = [k \in DOMAIN hlInner |->
                     [hlInner[k] EXCEPT !.open =
                         IF "out" \in hit THEN {}
                         ELSE {i \in @ : hlLists[k][i] # h}]]
    /\ UNCHANGED <<chainAt, hlLists, hlOut>>

\* the open positions of list k that are on the lookup of hash h
PositionsOf(k, h) == {i \in hlInner[k].open : hlLists[k][i] = h}

\* the price lists the inner combineLatests k..Len(inner) emit when the
\* price p of hash h arrives, in the order of their subscriptions
RECURSIVE emittedFrom(_, _, _)
emittedFrom(k, h, p) ==
    IF k > Len(hlInner) THEN <<>>
    ELSE LET d == deliverEach(hlInner[k].values, Ascending(PositionsOf(k, h)), p)
         IN  [a \in DOMAIN d.emitted |-> [of |-> k, prices |-> d.emitted[a]]]
                \o emittedFrom(k + 1, h, p)

\* The block-pinned query of hash h delivers the block's record and
\* completes.  Every open position that is on that lookup (they share one
\* memoized price stream) receives the price; an inner combineLatest emits
\* once all its positions have a price, and mergeMap passes the list on.
HashPriceNext(h) ==
    /\ derived = "getBatchConvertPrice"
    /\ hlStat.out = "active"
    /\ \E k \in DOMAIN hlInner : PositionsOf(k, h) # {}
    /\ LET conv == convertPrice(poolOfRaw(chainAt[h])) IN
       IF conv.kind = "error"
       THEN HashListFails("lookupPrice", h)
       ELSE /\ hlInner' =
                 [k \in DOMAIN hlInner |->
                    [values |-> deliverEach(hlInner[k].values,
                                            Ascending(PositionsOf(k, h)),
                                            conv.price).values,
                     open |-> hlInner[k].open \ PositionsOf(k, h)]]
            /\ hlOut' = hlOut \o emittedFrom(1, h, conv.price)
            /\ UNCHANGED <<chainAt, hlLists, hlStat, hlErr>>
    /\ UNCHANGED notHashList

\* The block-pinned query of hash h fails.
HashQueryError(h) ==
    /\ derived = "getBatchConvertPrice"
    /\ hlStat.out = "active"
    /\ \E k \in DOMAIN hlInner : PositionsOf(k, h) # {}
    /\ HashListFails("lookupQuery", h)
    /\ UNCHANGED notHashList

NextHashList ==
    \/ \E l \in SeqsUpTo(Hashes, MaxHashList) : HashListNext(l)
    \/ \E h \in Hashes : HashPriceNext(h)
    \/ \E h \in Hashes : HashQueryError(h)

SpecHashList == InitHashList /\ [][NextHashList]_vars


\* ------------------------------------------------ memo and the derivations
\* The derive functions a consumer wraps and calls in this part.
MemoFns ==
    {"getPoolInfo", "getConvertPriceInfo", "getAllVtokenConvertInfo",
     "getAnnualizedRate", "getBatchConvertPrice"}

\* Argument tuples.  hash "undefined": no preBlockHash was passed.
TokenArgs(hs) ==
    [token : Tokens, hash : hs, defined : {FALSE}, list : {<<>>}]

ListArgs ==
    {[token |-> "-", hash |-> "undefined", defined |-> a.defined, list |-> a.list] :
        a \in BatchArgs}

ArgsOf(fn) ==
    IF fn = "getAllVtokenConvertInfo" THEN ListArgs
    ELSE IF fn \in {"getAnnualizedRate", "getBatchConvertPrice"}
    THEN TokenArgs({"undefined"})
    ELSE TokenArgs({"undefined", "h1"})

\* the chain query getPoolInfo's inner function issues
NoQuery == [form |-> "none", token |-> "-", hash |-> "undefined"]

poolQuery(a) ==
    IF a.hash = "undefined"
    THEN [form |-> "live", token |-> a.token, hash |-> "undefined"]
    ELSE [form |-> "at", token |-> a.token, hash |-> a.hash]

Stream(id, w, fn, a, root, up) ==
    [id |-> id, w |-> w, fn |-> fn, args |-> a, root |-> root, up |-> up]

\* Variant for comparison: getPoolInfo returns its inner function unwrapped
returnsMemoExceptGetPoolInfo(fn) == fn # "getPoolInfo"

\* Every derive function returns memo(instanceId, inner).
returnsMemo(fn) == TRUE

\* memo: the live stream stored under the key (wrapped function, arguments)
memoHit(streams, w, a) ==
    {st \in streams : st.w = w /\ st.args = a /\ returnsMemo(st.fn)}

\* The inner function of getPoolInfo, run for the wrapped function w as
\* stream sid: it issues one chain query.
invokePool(w, a, root, sid) ==
    [streams |-> {Stream(sid, w, "getPoolInfo", a, root, poolQuery(a))},
     wrappers |-> <<>>, nextS |-> sid + 1]

\* The inner function of getConvertPriceInfo: it calls getPoolInfo(instanceId,
\* api), a new wrapped function (number nw + 1), and calls that.
invokePrice(w, a, root, sid, nw) ==
    LET sub == invokePool(nw + 1, a, root, sid + 1) IN
    [streams |-> {Stream(sid, w, "getConvertPriceInfo", a, root, NoQuery)}
                    \cup sub.streams,
     wrappers |-> <<[fn |-> "getPoolInfo", by |-> sid]>> \o sub.wrappers,
     nextS |-> sub.nextS]

\* vTokenList.map((vtk) => getPoolInfoQuery(vtk)): the one wrapped function
\* poolW is called with each token in turn; a token met again is a memo hit.
RECURSIVE callPoolEach(_, _, _, _)
callPoolEach(list, poolW, root, acc) ==
    IF Len(list) = 0 THEN acc
    ELSE LET a == [token |-> Head(list), hash |-> "undefined",
                   defined |-> FALSE, list |-> <<>>]
             sub == invokePool(poolW, a, root, acc.nextS)
         IN  callPoolEach(Tail(list), poolW, root,
                 IF memoHit(acc.streams, poolW, a) # {} THEN acc
                 ELSE [streams |-> acc.streams \cup sub.streams,
                       wrappers |-> acc.wrappers, nextS |-> sub.nextS])

\* The inner function of getAllVtokenConvertInfo.
invokeAllPools(w, a, root, sid, nw) ==
    callPoolEach(vTokenList(a), nw + 1, root,
        [streams |-> {Stream(sid, w, "getAllVtokenConvertInfo", a, root, NoQuery)},
         wrappers |-> <<[fn |-> "getPoolInfo", by |-> sid]>>,
         nextS |-> sid + 1])

\* The inner function of getAnnualizedRate, up to its subscription:
\* getConvertPriceInfo(instanceId, api) is a new wrapped function, called
\* for the current price; the resolver is a new wrapped function, called.
invokeRate(w, a, root, sid, nw) ==
    LET cur == invokePrice(nw + 1, a, root, sid + 1, nw + 1) IN
    [streams |-> {Stream(sid, w, "getAnnualizedRate", a, root, NoQuery),
                  Stream(cur.nextS, nw + 1 + Len(cur.wrappers) + 1,
                         "getDesignatedBlockHash",
                         [a EXCEPT !.token = "-"], root, NoQuery)}
                    \cup cur.streams,
     wrappers |-> <<[fn |-> "getConvertPriceInfo", by |-> sid]>> \o cur.wrappers
                    \o <<[fn |-> "getDesignatedBlockHash", by |-> sid]>>,
     nextS |-> cur.nextS + 1]

\* The inner function of getBatchConvertPrice, up to its subscription:
\* getConvertPriceInfo(instanceId, api) is a new wrapped function; nothing
\* is called before blockHashArray emits.
invokeBatchPrice(w, a, root, sid, nw) ==
    [streams |-> {Stream(sid, w, "getBatchConvertPrice", a, root, NoQuery)},
     wrappers |-> <<[fn |-> "getConvertPriceInfo", by |-> sid]>>,
     nextS |-> sid + 1]

invoke(fn, w, a, sid, nw) ==
    IF fn = "getPoolInfo" THEN invokePool(w, a, sid, sid)
    ELSE IF fn = "getConvertPriceInfo" THEN invokePrice(w, a, sid, sid, nw)
    ELSE IF fn = "getAllVtokenConvertInfo" THEN invokeAllPools(w, a, sid, sid, nw)
    ELSE IF fn = "getBatchConvertPrice" THEN invokeBatchPrice(w, a, sid, sid, nw)
    ELSE invokeRate(w, a, sid, sid, nw)

InitMemo ==
    /\ derived = "memo"
    /\ MemoIdle
    /\ RateIdle /\ BatchIdle /\ HashListIdle /\ PoolIdle

\* Variant for comparison: the derive function reads the pool of vDOT
\* ahead, when it is called with (instanceId, api)
constructPrefetching(fn, w, sid) ==
    invokePool(w, [token |-> "vDOT", hash |-> "undefined", defined |-> FALSE,
                   list |-> <<>>], sid, sid)

\* What the body of a derive function runs when it is called with
\* (instanceId, api), as the wrapped function w: `return memo(instanceId,
\* (...) => {...})` and nothing else; every statement of the derivation
\* is inside the arrow function.
construct(fn, w, sid) == [streams |-> {}, wrappers |-> <<>>, nextS |-> sid]

\* A consumer calls fn(instanceId, api): memo returns a new wrapped
\* function; the inner function does not run.
CreateWrapper(fn) ==
    /\ derived = "memo"
    /\ Cardinality({k \in DOMAIN mWrappers : mWrappers[k].by = 0}) < MaxWrappers
    /\ LET c == construct(fn, Len(mWrappers) + 1, mNextS) IN
       /\ mWrappers' = Append(mWrappers, [fn |-> fn, by |-> 0]) \o c.wrappers
       /\ mStreams' = mStreams \cup c.streams
       /\ mNextS' = c.nextS
    /\ UNCHANGED <<notMemo, mHandles, mCalls>>

\* A consumer calls the wrapped function w with the arguments a and
\* subscribes to the stream returned: the live stream of that key when
\* there is one, else the stream a run of the inner function creates.
CallAndSubscribe(w, a) ==
    /\ derived = "memo"
    /\ w \in DOMAIN mWrappers
    /\ mWrappers[w].by = 0
    /\ a \in ArgsOf(mWrappers[w].fn)
    /\ mCalls < MaxCalls
    /\ mCalls' = mCalls + 1
    /\ LET hit == memoHit(mStreams, w, a) IN
       IF hit # {}
       THEN /\ mHandles' = Append(mHandles,
                   [w |-> w, args |-> a, stream |-> (CHOOSE st \in hit : TRUE).id])
            /\ UNCHANGED <<mWrappers, mStreams, mNextS>>
       ELSE LET r == invoke(mWrappers[w].fn, w, a, mNextS, Len(mWrappers)) IN
            /\ mHandles' = Append(mHandles, [w |-> w, args |-> a, stream |-> mNextS])
            /\ mStreams' = mStreams \cup r.streams
            /\ mWrappers' = mWrappers \o r.wrappers
            /\ mNextS' = r.nextS
    /\ UNCHANGED notMemo

\* The consumer of handle j unsubscribes; with the last subscriber gone
\* the stream and every stream its derivation subscribed to are torn down.
Unsubscribe(j) ==
    /\ derived = "memo"
    /\ j \in DOMAIN mHandles
    /\ mHandles' = [k \in 1..Len(mHandles) - 1 |->
                      IF k < j THEN mHandles[k] ELSE mHandles[k + 1]]
    /\ mStreams' =
          IF \E k \in DOMAIN mHandles : k # j /\ mHandles[k].stream = mHandles[j].stream
          THEN mStreams
          ELSE {st \in mStreams : st.root # mHandles[j].stream}
    /\ UNCHANGED <<notMemo, mWrappers, mNextS, mCalls>>

\* Variant for comparison: the lookup subscribed by hand inside the
\* callback, outside the operator chain of the derivation
lookupRootDetached(r, sid) == sid

\* mergeMap subscribes to the stream its callback returns: the lookup
\* stream `sid` belongs to the subscription of the derived stream r.
lookupRoot(r, sid) == r.id

\* The derivation r calls its convertPriceQuery with (token, h) and the
\* operator around the call subscribes to the stream returned.
LookupOpens(r, h) ==
    /\ mNextS <= MaxStreamId
    /\ LET cw == CHOOSE k \in DOMAIN mWrappers :
                    mWrappers[k] = [fn |-> "getConvertPriceInfo", by |-> r.id]
           a == [r.args EXCEPT !.hash = h]
           sub == invokePrice(cw, a, lookupRoot(r, mNextS), mNextS,
                              Len(mWrappers)) IN
       /\ memoHit(mStreams, cw, a) = {}
       /\ mStreams' = mStreams \cup sub.streams
       /\ mWrappers' = mWrappers \o sub.wrappers
       /\ mNextS' = sub.nextS
    /\ UNCHANGED <<notMemo, mHandles, mCalls>>

\* The resolver of the live getAnnualizedRate stream r emits the hash h:
\* mergeMap calls r's convertPriceQuery with (token, h) and subscribes.
MemoResolverNext(r, h) ==
    /\ derived = "memo"
    /\ r \in mStreams
    /\ r.fn = "getAnnualizedRate"
    /\ LookupOpens(r, h)

\* blockHashArray of the live getBatchConvertPrice stream r emits the list
\* [h]: mergeMap subscribes to the combineLatest over
\* getConvertPriceInfoQuery(tokenSymbol, h).
MemoHashListNext(r, h) ==
    /\ derived = "memo"
    /\ r \in mStreams
    /\ r.fn = "getBatchConvertPrice"
    /\ LookupOpens(r, h)

\* The lookup of hash h under the derived stream r has delivered and
\* completed: its streams are gone.
MemoLookupDone(r, h) ==
    /\ derived = "memo"
    /\ r \in mStreams
    /\ r.fn \in {"getAnnualizedRate", "getBatchConvertPrice"}
    /\ \E st \in mStreams : st.root = r.id /\ st.id # r.id /\ st.args.hash = h
    /\ mStreams' = {st \in mStreams :
                      ~(st.root = r.id /\ st.id # r.id /\ st.args.hash = h)}
    /\ UNCHANGED <<notMemo, mWrappers, mHandles, mNextS, mCalls>>

NextMemo ==
    \/ \E fn \in MemoFns : CreateWrapper(fn)
    \/ \E w \in DOMAIN mWrappers, a \in ListArgs \cup TokenArgs({"undefined", "h1"}) :
          CallAndSubscribe(w, a)
    \/ \E j \in 1..MaxCalls : Unsubscribe(j)
    \/ \E r \in mStreams : MemoResolverNext(r, "h1")
    \/ \E r \in mStreams : MemoHashListNext(r, "h1")
    \/ \E r \in mStreams : MemoLookupDone(r, "h1")

SpecMemo == InitMemo /\ [][NextMemo]_vars

\* ------------------------------------- getPoolInfo(tokenSymbol, preBlockHash)
\* Variant for comparison: the test of preBlockHash left out, the live
\* query issued whatever the arguments
queriesIssuedLiveOnly(a) ==
    <<[form |-> "live", token |-> a.token, hash |-> "undefined"]>>

\* The chain queries one run of the inner function issues: the if/else on
\* preBlockHash === undefined assigns `result` exactly once.
queriesIssued(a) == <<poolQuery(a)>>

\* The inner function has run with the arguments a and the stream it
\* returned has been subscribed to.
InitPool ==
    /\ derived = "getPoolInfo"
    /\ pArg \in TokenArgs({"undefined"} \cup Hashes)
    /\ pIssued = queriesIssued(pArg)
    /\ pStat = "active"
    /\ pRaw = None
    /\ pOut = None
    /\ pCount = 0
    /\ RateIdle /\ BatchIdle /\ HashListIdle /\ MemoIdle

\* The chain query delivers the raw record res: the map callback builds
\* the pool state and the stream emits it.  A block-pinned query delivers
\* the block's one state; a live query delivers every change.
PoolQueryNext(res) ==
    /\ derived = "getPoolInfo"
    /\ pStat = "active"
    /\ pCount < (IF pArg.hash = "undefined" THEN MaxCurrent ELSE 1)
    /\ pRaw' = res
    /\ pOut' = poolOfRaw(res)
    /\ pCount' = pCount + 1
    /\ UNCHANGED <<notPool, pArg, pIssued, pStat>>

\* The chain query fails: map passes the error on.
PoolQueryError ==
    /\ derived = "getPoolInfo"
    /\ pStat = "active"
    /\ pStat' = "error"
    /\ UNCHANGED <<notPool, pArg, pIssued, pRaw, pOut, pCount>>

NextPool ==
    \/ \E res \in RawPools : PoolQueryNext(res)
    \/ PoolQueryError

SpecPool == InitPool /\ [][NextPool]_vars

Init == InitRate

Next ==
    \/ \E raw \in PriceRawPools : CurrentPoolNext(raw)
    \/ \E h \in Hashes : ResolverNext(h)
    \/ \E h \in Hashes, raw \in PriceRawPools : HistoricalPoolNext(h, raw)
    \/ CurrentQueryError
    \/ \E h \in Hashes : HistoricalQueryError(h)

Spec == Init /\ [][Next]_vars

\* Any one of the derivations, subscribed once.
InitDerived == InitRate \/ InitBatch \/ InitHashList

NextDerived ==
    \/ \E raw \in PriceRawPools : CurrentPoolNext(raw)
    \/ \E h \in Hashes : ResolverNext(h)
    \/ \E h \in Hashes, raw \in PriceRawPools : HistoricalPoolNext(h, raw)
    \/ CurrentQueryError
    \/ \E h \in Hashes : HistoricalQueryError(h)
    \/ \E i \in DOMAIN bSubs : \E e \in ElementOutcomes(derived) :
          ElementDelivers(i, e)
    \/ \E i \in DOMAIN bSubs : ElementQueryError(i)
    \/ \E l \in SeqsUpTo(Hashes, MaxHashList) : HashListNext(l)
    \/ \E h \in Hashes : HashPriceNext(h)
    \/ \E h \in Hashes : HashQueryError(h)

SpecDerived == InitDerived /\ [][NextDerived]_vars

\* -------------------------------------------------------------- properties
\* the integer a price stands for, whichever its representation
PriceValue(p) == p.n

IsZeroBN(x) == x.hi = 0 /\ x.lo = 0
InNativeRange(x) == x.hi = 0

\* C1: every pool state delivered to getConvertPriceInfo whose vtoken_pool
\* is 0, whatever its token_pool, makes the price stream emit exactly the
\* number 0, without a division.
C1_ZeroVtokenPoolEmitsZero ==
    (lastMap.kind = "map" /\ IsZeroBN(lastMap.pool.vtoken_pool))
        => /\ lastMap.out.kind = "next"
           /\ lastMap.out.price = NumberPrice(0)
           /\ ~lastMap.out.divided

\* C2: every pool state within native range whose vtoken_pool is not 0
\* makes the price stream emit the quotient token_pool / vtoken_pool, also
\* when vtoken_pool does not divide token_pool.
C2_PriceIsExactQuotient ==
    (/\ lastMap.kind = "map"
     /\ InNativeRange(lastMap.pool.token_pool)
     /\ InNativeRange(lastMap.pool.vtoken_pool)
     /\ ~IsZeroBN(lastMap.pool.vtoken_pool))
        => /\ lastMap.out.kind = "next"
           /\ PriceValue(lastMap.out.price) * lastMap.pool.vtoken_pool.lo
                  = lastMap.pool.token_pool.lo

\* C3: every rate emitted from a pair whose historical price is zero is
\* exactly 0, however the price deriver produced that zero.
C3_ZeroHistoricalPriceGivesZeroRate ==
    (rateOut.kind = "rate" /\ PriceValue(rateOut.hist) = 0)
        => rateOut.rate = Finite(0, 1)

\* C4: every rate emitted from a pair whose historical price h is not zero
\* equals (c - h) / h / 7 * 365, c being the current price.
C4_RateFormula ==
    (rateOut.kind = "rate" /\ PriceValue(rateOut.hist) # 0)
        => /\ rateOut.rate.kind = "finite"
           /\ rateOut.rate.num * (PriceValue(rateOut.hist) * 7)
                = (PriceValue(rateOut.cur) - PriceValue(rateOut.hist)) * 365
                    * rateOut.rate.den

\* C4 witness: current price 3 and historical price 2 gave 1/2/7*365.
C4_Witness ==
    /\ rateOut.kind = "rate"
    /\ PriceValue(rateOut.cur) = 3
    /\ PriceValue(rateOut.hist) = 2
    /\ rateOut.rate = Finite(365, 14)

\* the token list a batch call is about: the argument, or the default
\* universe when there is none
InputTokens == IF bArg.defined THEN bArg.list ELSE bifrostVtokenList

\* C7: every list a batch stream emits is as long as the input token list
\* and holds at position i the latest value of the i-th input token's
\* stream, whatever the order of the streams' deliveries.
C7_BatchOrderAndLength ==
    bOut.kind = "list"
        => /\ Len(bOut.list) = Len(InputTokens)
           /\ \A i \in DOMAIN bOut.list :
                 /\ bOut.list[i].token = InputTokens[i]
                 /\ bOut.list[i] = bDelivered.last[i]

\* C7 witness: over [vKSM, vDOT], after position 2 delivered before
\* position 1 and position 2 delivered again, the list emitted holds two
\* different values in the order of the input list.
C7_Witness ==
    /\ bArg = [defined |-> TRUE, list |-> <<"vKSM", "vDOT">>]
    /\ bOut.kind = "list"
    /\ bCount = 2
    /\ bOut.list[1].token = "vKSM" /\ bOut.list[2].token = "vDOT"
    /\ bOut.list[1].value # bOut.list[2].value

\* C8: the price lists come out in the order their hash lists went in.
C8_PriceListsInHashListOrder ==
    \A a, b \in DOMAIN hlOut : a < b => hlOut[a].of < hlOut[b].of

\* the price at a block hash
PriceAt(h) == convertPrice(poolOfRaw(chainAt[h])).price

\* C9: for every list blockHashArray has emitted, of any length from 0,
\* once each of its price streams has delivered there is exactly one
\* emission for it, as long as the list, holding at position i the price at
\* the i-th hash.
C9_OneEmissionPerHashList ==
    \A k \in DOMAIN hlLists :
        (hlStat.out = "active" /\ hlInner[k].open = {})
            => /\ Cardinality({a \in DOMAIN hlOut : hlOut[a].of = k}) = 1
               /\ \A a \in DOMAIN hlOut :
                     hlOut[a].of = k
                         => /\ Len(hlOut[a].prices) = Len(hlLists[k])
                            /\ \A i \in DOMAIN hlLists[k] :
                                  hlOut[a].prices[i] = PriceAt(hlLists[k][i])

\* C5: for one wrapped function, calls with equal arguments made while a
\* subscriber is attached return the same stream, and the inner function
\* (hence the chain query it issues) has run at most once for that key.
C5_EqualCallsShareOneStream ==
    /\ \A j, k \in DOMAIN mHandles :
          (mHandles[j].w = mHandles[k].w /\ mHandles[j].args = mHandles[k].args)
              => mHandles[j].stream = mHandles[k].stream
    /\ \A s1, s2 \in mStreams :
          (s1.w = s2.w /\ s1.args = s2.args) => s1.id = s2.id

\* C5 witness: three calls of one wrapped getPoolInfo with equal arguments
\* are attached to one stream, which holds the only chain query.
C5_Witness ==
    /\ Len(mHandles) = 3
    /\ mWrappers[mHandles[1].w].fn = "getPoolInfo"
    /\ mHandles[1] = mHandles[2] /\ mHandles[2] = mHandles[3]
    /\ Cardinality({st \in mStreams : st.up # NoQuery}) = 1

\* C6: at any time at most one chain query subscription is live per
\* (token, block hash), whichever derivations need that pool read.
C6_OneLiveQueryPerTokenAndHash ==
    \A s1, s2 \in mStreams :
        (s1.up # NoQuery /\ s1.up = s2.up) => s1.id = s2.id

\* A failed chain query has failed every stream built on it, up to the
\* subscriber's, and the subscriber's error notification is that error.
C10_ErrorsReachSubscriber ==
    /\ rStat.query = "error" =>
          /\ rStat.pool = "error" /\ rStat.price = "error"
          /\ rStat.rate = "error"
          /\ rErr = [kind |-> "error", src |-> "query"]
    /\ rStat.lookupQuery = "error" =>
          /\ rStat.lookupPool = "error" /\ rStat.lookupPrice = "error"
          /\ rStat.hist = "error" /\ rStat.rate = "error"
          /\ rErr = [kind |-> "error", src |-> "lookupQuery"]
    /\ \A i \in DOMAIN bStat.query :
          bStat.query[i] = "error" =>
             /\ bStat.elem[i] = "error" /\ bStat.batch = "error"
             /\ bErr = [kind |-> "error", src |-> "query", position |-> i]
    /\ hlStat.lookupQuery = "error" =>
          /\ hlStat.lookupPool = "error" /\ hlStat.lookupPrice = "error"
          /\ hlStat.inner = "error" /\ hlStat.out = "error"
          /\ hlErr.kind = "error" /\ hlErr.src = "lookupQuery"

\* Once the subscriber's stream has failed, nothing of the derivation
\* changes: no value is emitted, no query is issued, the error stays.
C10_ErrorIsTerminal ==
    /\ rStat.rate = "error" => UNCHANGED rateVars
    /\ bStat.batch = "error" => UNCHANGED batchVars
    /\ hlStat.out = "error" => UNCHANGED hashListVars

\* C10: when a chain query stream terminates with an error, every derived
\* stream built on it (pool, price, rate, the batch or hash-list stream
\* containing it) delivers that error to its subscriber, and the error is
\* terminal: afterwards no value is emitted, no query is issued again and
\* no value is substituted for the error.
C10_ErrorPropagation ==
    []C10_ErrorsReachSubscriber /\ [][C10_ErrorIsTerminal]_vars

\* A block-pinned lookup of getAnnualizedRate failed after rates had been
\* emitted.
C10_Witness ==
    /\ rStat.lookupQuery = "error"
    /\ rateCount > 0
    /\ rateOut.kind = "rate"

\* C11: every pool state delivered to getConvertPriceInfo, also one whose
\* token_pool or vtoken_pool is beyond the native integer range, makes the
\* price stream emit a price; none is turned into an error notification.
C11_PriceDeriverIsTotal ==
    lastMap.kind = "map" => lastMap.out.kind = "next"

\* every position of the batch has delivered a value
AllDelivered(d) == \A i \in DOMAIN d.last : d.last[i] # None

\* C12 as stated: the lists a batch stream emits correspond one to one with
\* the values its positions' streams delivered.
C12_OneListPerDelivery ==
    bCount = bDelivered.count

\* C12 amended: a value delivered by a position's stream makes the batch
\* stream emit exactly one list, holding that value and the latest value of
\* every other position, once every position has delivered; until then
\* nothing is emitted; and a list is emitted only on such a delivery.
C12_OneListPerDeliveryOnceAllDelivered ==
    [][/\ bDelivered.count' = bDelivered.count + 1 =>
             IF AllDelivered(bDelivered')
             THEN /\ bCount' = bCount + 1
                  /\ bOut' = [kind |-> "list", list |-> bDelivered'.last]
             ELSE /\ bCount' = bCount /\ bCount = 0
                  /\ bOut' = bOut /\ bOut = None
       /\ (bCount' # bCount \/ bOut' # bOut) =>
             bDelivered.count' = bDelivered.count + 1]_vars

\* C12 witness: over two tokens the first delivery emitted nothing and
\* the two deliveries after it emitted one list each.
C12_Witness ==
    /\ Len(bSubs) = 2
    /\ bDelivered.count = 3
    /\ bCount = 2
    /\ bOut.kind = "list"

\* C13: no stream a derivation subscribed to outlives the derived stream's
\* last subscriber (current price, resolver, every lookup opened for an
\* emitted hash), and a stream that still has a subscriber stays live.
C13_CancellationCascades ==
    /\ \A st \in mStreams :
          \E j \in DOMAIN mHandles : mHandles[j].stream = st.root
    /\ \A j \in DOMAIN mHandles :
          \E st \in mStreams : st.id = mHandles[j].stream /\ st.root = st.id

\* C13 witness: the one subscriber of a getAnnualizedRate stream for which
\* a lookup had been opened has unsubscribed, and no stream is live.
C13_Witness ==
    /\ mCalls = 1
    /\ mHandles = <<>>
    /\ mStreams = {}
    /\ mWrappers[1].fn = "getAnnualizedRate"
    /\ Cardinality({k \in DOMAIN mWrappers : mWrappers[k].fn = "getPoolInfo"}) = 2

\* a step in which a consumer constructed a wrapped function
WrapperConstructed ==
    /\ Len(mWrappers') > Len(mWrappers)
    /\ mWrappers'[Len(mWrappers) + 1].by = 0

C15_OneQueryChosenByHash ==
    derived = "getPoolInfo" =>
        /\ Len(pIssued) = 1
        /\ pIssued[1].token = pArg.token
        /\ pArg.hash = "undefined" =>
              pIssued[1].form = "live"
        /\ pArg.hash # "undefined" =>
              pIssued[1].form = "at" /\ pIssued[1].hash = pArg.hash
        /\ pCount > 0 =>
              /\ pOut.current_reward = pRaw.current_reward
              /\ pOut.pending_reward = pRaw.pending_reward
              /\ pOut.token_pool = pRaw.token_pool
              /\ pOut.vtoken_pool = pRaw.vtoken_pool

\* C15 witness: called with (vKSM, h2), the block-pinned query has
\* delivered a record of four different fields and it was emitted.
C15_Witness ==
    /\ derived = "getPoolInfo"
    /\ pArg.token = "vKSM" /\ pArg.hash = "h2"
    /\ pCount = 1
    /\ pRaw.current_reward.lo = 0 /\ pRaw.pending_reward.lo = 1
    /\ pRaw.token_pool = [hi |-> 1, lo |-> 2]
    /\ pRaw.vtoken_pool = [hi |-> 0, lo |-> 3]
    /\ pOut.token_pool = [hi |-> 1, lo |-> 2]

\* C16: a hash emitted by the resolver opens, in the same step, a lookup
\* of the price at that hash and leaves every lookup opened earlier open;
\* a lookup that delivers closes no lookup of another hash, and its
\* price, whichever lookup it is, becomes the historical input of the
\* combine step.
C16_MergeKeepsEarlierLookups ==
    [][/\ resolved' # resolved =>
             histOpen' = Append(histOpen, resolved'[Len(resolved')])
       /\ (Len(histOpen') < Len(histOpen) /\ rStat'.rate = "active") =>
             /\ \E h \in Hashes :
                   histOpen' = SelectSeq(histOpen, LAMBDA x : x # h)
             /\ latest'[2] = lastMap'.out.price]_vars

\* C16 witness: with the lookups of h1 and h2 both open, the later one
\* (h2) has delivered, and the lookup of h1 is still open.
C16_Witness ==
    /\ resolved = <<"h1", "h2">>
    /\ histOpen = <<"h1">>
    /\ latest[2] # None
    /\ rStat.rate = "active"

\* a step in which the current-price input delivered a price
CurrentDelivered == curCount' = curCount + 1 /\ rStat'.rate = "active"

\* a step in which lookups delivered a price to the historical input
HistoricalDelivered == Len(histOpen') < Len(histOpen) /\ rStat'.rate = "active"

\* C17: no rate is emitted until the current price and one historical
\* lookup have both delivered; from then on each delivery on either input
\* emits exactly one rate, computed from the price delivered and the
\* latest price of the other input; and no rate is emitted otherwise.
C17_RatePerDeliveryOnceBothDelivered ==
    /\ []((latest[1] = None \/ latest[2] = None) =>
             rateCount = 0 /\ rateOut = None)
    /\ [][/\ CurrentDelivered =>
                IF latest[2] = None THEN rateCount' = rateCount
                ELSE /\ rateCount' = rateCount + 1
                     /\ rateOut'.cur = lastMap'.out.price
                     /\ rateOut'.hist = latest[2]
          /\ HistoricalDelivered =>
                IF latest[1] = None THEN rateCount' = rateCount
                ELSE /\ rateCount' = rateCount + Len(histOpen) - Len(histOpen')
                     /\ rateOut'.cur = latest[1]
                     /\ rateOut'.hist = lastMap'.out.price
          /\ rateCount' # rateCount => CurrentDelivered \/ HistoricalDelivered
          /\ rateOut' # None =>
                rateOut'.rate = annualizedRate(rateOut'.cur, rateOut'.hist)]_vars

\* C17 witness: the live query had delivered twice before the one
\* historical lookup delivered; that delivery emitted the first rate, from
\* the second current price.
C17_Witness ==
    /\ curCount = 2
    /\ Len(resolved) = 1 /\ histOpen = <<>>
    /\ rateCount = 1
    /\ rateOut.kind = "rate"
    /\ rateOut.cur = latest[1]
    /\ rStat.rate = "active"

\* the resolver emitted two different hashes, the lookup of the second has
\* delivered its price and the lookup of the first is still open: the
\* historical input holds the price at the second hash
SecondHashDelivered ==
    /\ Len(resolved) = 2
    /\ resolved[1] # resolved[2]
    /\ histOpen = <<resolved[1]>>
    /\ latest[2] # None
    /\ rStat.rate = "active"

\* C18: once the resolver has emitted h1 then h2 and the price at h2 has
\* been delivered, the historical input stays the price at h2 and every
\* rate emitted later is computed from it, whenever the lookup of h1
\* delivers.
C18_RateUsesLatestResolvedHash ==
    [][(SecondHashDelivered /\ rStat'.rate = "active") =>
          /\ latest'[2] = latest[2]
          /\ rateCount' # rateCount => rateOut'.hist = latest[2]]_vars

\* C19: a price emitted for a pool state whose vtoken_pool is not 0 is
\* the integer q with q * vtoken_pool <= token_pool < (q + 1) * vtoken_pool
\* (the remainder is discarded); it is 0 whenever token_pool < vtoken_pool.
C19_PriceIsFloorQuotient ==
    (/\ lastMap.kind = "map"
     /\ lastMap.out.kind = "next"
     /\ ~IsZeroBN(lastMap.pool.vtoken_pool))
        => LET q == PriceValue(lastMap.out.price)
               t == lastMap.pool.token_pool.lo
               v == lastMap.pool.vtoken_pool.lo IN
           /\ lastMap.out.divided
           /\ lastMap.out.price.tag = "BN"
           /\ q \in Nat
           /\ q * v <= t /\ t < (q + 1) * v
           /\ t < v => q = 0

\* C19 witness: token_pool 3 over vtoken_pool 2 gave the price 1.
C19_Witness ==
    /\ lastMap.kind = "map"
    /\ lastMap.pool.token_pool = [hi |-> 0, lo |-> 3]
    /\ lastMap.pool.vtoken_pool = [hi |-> 0, lo |-> 2]
    /\ lastMap.out.kind = "next"
    /\ PriceValue(lastMap.out.price) = 1

====
